---- MODULE Spec2Model ----
(***************************************************************************)
(* The Filecoin blockchain engine of ganache                               *)
(* (src/chains/filecoin/filecoin/src/blockchain.ts): message pool, nonce   *)
(* projection, mining of tipsets, storage deals, stop and re-start.        *)
(* Every asynchronous invocation (the database-ready callback, push,       *)
(* pushSigned, mineTipset, startDeal, stop) is a task; a task takes one    *)
(* step per group of statements that runs between two suspension points    *)
(* (await) of the source and changes or reads the state of the engine.     *)
(***************************************************************************)
EXTENDS Integers, Sequences, FiniteSets, TLC

\* ---------------------------------------------------------------- bounds
MaxCalls == 3
MaxRestarts == 1
MaxStops == 2

\* ------------------------------------------------------------- constants
DefaultBalance == 4
DealSteps == 2

BurntFundsAddress == "t099"
MinerAddress == "t01000"
AddrA == "t3a"
AddrB == "t3b"
AddrId == "t0123"
NoAddr == "none"

Controllable == {AddrA, AddrB}
Addrs == {AddrA, AddrB, AddrId, MinerAddress, BurntFundsAddress}

\* Account.random(defaultBalance, rng) in the order of the seeded generator
SeedOrder == <<AddrA, AddrB>>

PushIds == 1..MaxCalls
MineIds == 1..MaxCalls
DealIds == 1..MaxCalls
StopIds == 1..MaxStops

\* ---------------------------------------------------------------- inputs
\* numNewBlocks of mineTipset: a tipset has at least one block
NumNewBlocks == {1, 2}
\* numNewBlocks as the signature takes it, any number
AnyNumNewBlocks == {0, 1, 2}
\* proposal.miner, retrievalOrder.miner
PayeeInputs == {MinerAddress, AddrB}
\* proposal.epochPrice and proposal.minBlocksDuration
EpochPriceInputs == {1}
DurationInputs == {2}
\* retrievalOrder.total
TotalInputs == {1}

\* --------------------------------------------------------------- helpers
Min(a, b) == IF a < b THEN a ELSE b
Max(a, b) == IF a > b THEN a ELSE b

RECURSIVE SumSeq(_)
SumSeq(s) == IF s = <<>> THEN 0 ELSE Head(s) + SumSeq(Tail(s))

\* Array.prototype.splice(i, 1), 1-based
RemoveAt(s, i) == SubSeq(s, 1, i - 1) \o SubSeq(s, i + 1, Len(s))

\* Array.prototype.indexOf, 1-based; 0 when absent
IndexOf(s, x) ==
  IF \E i \in 1..Len(s) : s[i] = x
  THEN CHOOSE i \in 1..Len(s) : s[i] = x /\ \A j \in 1..(i - 1) : s[j] # x
  ELSE 0

\* Address.parseProtocol: the protocol is the digit after the network prefix
ParseProtocol(a) ==
  CASE a \in {AddrId, MinerAddress, BurntFundsAddress} -> "ID"
    [] a \in {AddrA, AddrB} -> "BLS"
    [] OTHER -> "Unknown"

\* ------------------------------------------------------------------ gas
getBaseFee == 0
getMinerFee(m) == m.gasPremium * m.gasLimit

\* ------------------------------------------------------------- messages
NoMsg == [from |-> NoAddr, to |-> NoAddr, value |-> 0, method |-> 0,
          nonce |-> 0, gasFeeCap |-> 0, gasLimit |-> 0, gasPremium |-> 0,
          ok |-> TRUE, via |-> "none", raced |-> FALSE]

\* a value transfer as a caller hands it to push, gas fields filled in
Transfer(f, t, v) ==
  [from |-> f, to |-> t, value |-> v, method |-> 0, nonce |-> 0,
   gasFeeCap |-> 1, gasLimit |-> 1, gasPremium |-> 1, ok |-> TRUE,
   via |-> "none", raced |-> FALSE]

\* the messages callers hand to push (after fillGasInformation)
PushInputs ==
  { Transfer(AddrA, AddrB, 1), Transfer(AddrA, AddrB, 2),
    Transfer(AddrB, AddrA, 1),
    [Transfer(AddrA, AddrB, 1) EXCEPT !.ok = FALSE],
    [Transfer(AddrA, AddrB, 1) EXCEPT !.method = 2],
    [Transfer(AddrA, AddrB, 1) EXCEPT !.nonce = 1],
    Transfer(AddrId, AddrB, 1), Transfer(AddrA, AddrId, 1) }

\* the signed messages callers hand to pushSigned
SignedInputs ==
  { [Transfer(AddrA, AddrB, 1) EXCEPT !.nonce = 1],
    [Transfer(AddrA, AddrB, 1) EXCEPT !.ok = FALSE],
    [Transfer(AddrA, AddrB, 1) EXCEPT !.method = 2] }

\* checkMessage(signedMessage): the error, or "" when the message passes
checkMessage(m) ==
  IF m.method # 0 THEN "UnsupportedMethod"
  ELSE IF ParseProtocol(m.from) \in {"ID", "Unknown"} THEN "InvalidProtocol"
  ELSE IF ParseProtocol(m.to) \in {"ID", "Unknown"} THEN "InvalidProtocol"
  ELSE IF ~m.ok THEN "InvalidSignature"
  ELSE ""

\* ---------------------------------------------------------------- state
VARIABLES
  blockTime,       \* options.miner.blockTime (0 = instamine)
  ready,           \* this.ready
  stopT,           \* the stop() invocations
  restarts,        \* number of re-initialisations on the same store
  calls,           \* number of calls made by the outside so far
  lastError,       \* what the last failed push or pushSigned raised
  controllableAccounts, \* accounts whose private key the store holds
  balance, nonce,  \* the account ledger (persisted, write-through)
  messagePool,     \* this.messagePool
  messagePoolLock, \* this.#messagePoolLock
  miningLock,      \* this.#miningLock
  miningTimeout,   \* TRUE while the interval timer is armed
  pushT,           \* the push / pushSigned invocations
  mineT,           \* the mineTipset invocations
  dealT,           \* the startDeal invocations
  tipsets,         \* heights of the tipsets that were put (persisted)
  blockless,       \* heights of the tipsets that were put without a block
  latest,          \* tipsetManager.latest.height; -1 before initialisation
  dbLatest,        \* the persisted "latest-tipset" key; -1 when absent
  blockMessages,   \* persisted records: first block (by height), messages
  deals,           \* this.deals
  inProcessDeals,  \* this.inProcessDeals, as indices into deals
  events,          \* heights carried by the tipset events emitted so far
  applied,         \* messages whose sender's nonce was incremented, in order
  allDealIds       \* dealIds handed out by startDeal, over all runs

vars == <<blockTime, ready, stopT, restarts, calls, lastError,
          controllableAccounts, balance, nonce, messagePool,
          messagePoolLock, miningLock, miningTimeout, pushT, mineT, dealT,
          tipsets, blockless, latest, dbLatest, blockMessages, deals,
          inProcessDeals, events, applied, allDealIds>>

\* --------------------------------------------------------- the semaphore
\* async-sema: acquire takes a free token or queues the caller; release
\* hands the token to the first waiter or returns it to the free list
NewSema == [free |-> 1, waiting |-> <<>>]
Acquire(lock, t) ==
  IF lock.free > 0 THEN [lock EXCEPT !.free = @ - 1]
  ELSE [lock EXCEPT !.waiting = Append(@, t)]
Release(lock) ==
  IF lock.waiting # <<>> THEN [lock EXCEPT !.waiting = Tail(@)]
  ELSE [lock EXCEPT !.free = @ + 1]
Granted(lock, t) == \A i \in 1..Len(lock.waiting) : lock.waiting[i] # t

\* ---------------------------------------------------- the account ledger
\* a transfer that debits the sender and never credits the receiver
TransferFundsDebitOnly(bal, from, to, amount) ==
  IF bal[from] >= amount
  THEN [ok |-> TRUE, bal |-> [bal EXCEPT ![from] = @ - amount]]
  ELSE [ok |-> FALSE, bal |-> bal]

\* accountManager.transferFunds: debit then credit, refused (and nothing
\* changed) when the sender's balance is below the amount
TransferFunds(bal, from, to, amount) ==
  IF bal[from] >= amount
  THEN [ok |-> TRUE,
        bal |-> [[bal EXCEPT ![from] = @ - amount] EXCEPT ![to] = @ + amount]]
  ELSE [ok |-> FALSE, bal |-> bal]

\* accountManager.incrementNonce
IncrementNonce(non, a) == [non EXCEPT ![a] = @ + 1]

\* ----------------------------------------------------------------- tasks
IdlePush == [pc |-> "idle", kind |-> "none", msg |-> NoMsg]
IdleMine == [pc |-> "idle", owner |-> 0, batch |-> <<>>, idx |-> 0,
             height |-> 0, succ |-> <<>>, poolHeld |-> FALSE,
             hasBlocks |-> TRUE]
IdleDeal == [pc |-> "idle", deal |-> 0, wallet |-> NoAddr,
             miner |-> NoAddr, price |-> 0]

\* the free slot a new invocation takes
NextMine == CHOOSE t \in MineIds :
              /\ mineT[t].pc = "idle"
              /\ \A u \in MineIds : mineT[u].pc = "idle" => t <= u
NextPush == CHOOSE p \in PushIds :
              /\ pushT[p].pc = "idle"
              /\ \A q \in PushIds : pushT[q].pc = "idle" => p <= q
NextDeal == CHOOSE d \in DealIds :
              /\ dealT[d].pc = "idle"
              /\ \A e \in DealIds : dealT[e].pc = "idle" => d <= e
NextStop == CHOOSE s \in StopIds :
              /\ stopT[s] = "idle"
              /\ \A u \in StopIds : stopT[u] = "idle" => s <= u

\* a batch that was drained from the pool is still being applied
Applying == \E t \in MineIds : mineT[t].pc \in {"fee", "value", "nonce"}

\* mineTipset(numNewBlocks): the call, up to await this.waitForReady()
\* (406-407); poolHeld tells whether the caller holds the pool lock as it
\* calls; of numNewBlocks the invocation uses whether it is 0
CallMineTipset(mT, owner, poolHeld, numNewBlocks) ==
  [mT EXCEPT ![NextMine] = [IdleMine EXCEPT !.pc = "called",
                                            !.owner = owner,
                                            !.poolHeld = poolHeld,
                                            !.hasBlocks = numNewBlocks > 0]]

\* ------------------------------------------------------------------ Init
Init ==
  /\ blockTime \in {0, 1}
  /\ ready = FALSE
  /\ stopT = [s \in StopIds |-> "idle"]
  /\ restarts = 0
  /\ calls = 0
  /\ lastError = ""
  /\ controllableAccounts = {}
  /\ balance = [a \in Addrs |-> 0]
  /\ nonce = [a \in Addrs |-> 0]
  /\ messagePool = <<>>
  /\ messagePoolLock = NewSema
  /\ miningLock = NewSema
  /\ miningTimeout = FALSE
  /\ pushT = [p \in PushIds |-> IdlePush]
  /\ mineT = [t \in MineIds |-> IdleMine]
  /\ dealT = [d \in DealIds |-> IdleDeal]
  /\ tipsets = {}
  /\ blockless = {}
  /\ latest = -1
  /\ dbLatest = -1
  /\ blockMessages = {}
  /\ deals = <<>>
  /\ inProcessDeals = <<>>
  /\ events = <<>>
  /\ applied = <<>>
  /\ allDealIds = <<>>

\* ----------------------------------------- the database-ready callback
\* putAccount(Account.random(...)), once per turn of the loop over
\* totalAccounts, on a store that had no account (134-141)
initSeed ==
  /\ ~ready
  /\ latest = -1
  /\ 0 \notin tipsets
  /\ Cardinality(controllableAccounts) < Len(SeedOrder)
  /\ LET a == SeedOrder[Cardinality(controllableAccounts) + 1]
     IN /\ controllableAccounts' = controllableAccounts \cup {a}
        /\ balance' = [balance EXCEPT ![a] = DefaultBalance]
  /\ UNCHANGED <<blockTime, ready, stopT, restarts, calls, lastError, nonce,
                 messagePool, messagePoolLock, miningLock, miningTimeout,
                 pushT, mineT, dealT, tipsets, blockless, latest, dbLatest,
                 blockMessages, deals, inProcessDeals, events, applied,
                 allDealIds>>

\* no genesis tipset recorded: putTipset(genesisTipset), which sets
\* latest (143-168)
initGenesis ==
  /\ ~ready
  /\ controllableAccounts = Controllable
  /\ 0 \notin tipsets
  /\ tipsets' = tipsets \cup {0}
  /\ latest' = 0
  /\ UNCHANGED <<blockTime, ready, stopT, restarts, calls, lastError,
                 controllableAccounts, balance, nonce, messagePool,
                 messagePoolLock, miningLock, miningTimeout, pushT, mineT,
                 dealT, blockless, dbLatest, blockMessages, deals,
                 inProcessDeals, events, applied, allDealIds>>

\* db.put("latest-tipset", 0) after the genesis tipset was put (169-172)
initKey ==
  /\ ~ready
  /\ 0 \in tipsets
  /\ latest = 0
  /\ dbLatest = -1
  /\ dbLatest' = 0
  /\ UNCHANGED <<blockTime, ready, stopT, restarts, calls, lastError,
                 controllableAccounts, balance, nonce, messagePool,
                 messagePoolLock, miningLock, miningTimeout, pushT, mineT,
                 dealT, tipsets, blockless, latest, blockMessages, deals,
                 inProcessDeals, events, applied, allDealIds>>

\* a start-up that takes the genesis tipset for the latest one
initLoadFromGenesis ==
  /\ ~ready
  /\ controllableAccounts = Controllable
  /\ 0 \in tipsets
  /\ dbLatest >= 0
  /\ latest = -1
  /\ latest' = 0
  /\ UNCHANGED <<blockTime, ready, stopT, restarts, calls, lastError,
                 controllableAccounts, balance, nonce, messagePool,
                 messagePoolLock, miningLock, miningTimeout, pushT, mineT,
                 dealT, tipsets, blockless, dbLatest, blockMessages, deals,
                 inProcessDeals, events, applied, allDealIds>>

\* a genesis tipset is recorded: read "latest-tipset" and make the tipset
\* of that height the latest one (173-180)
initLoad ==
  /\ ~ready
  /\ controllableAccounts = Controllable
  /\ 0 \in tipsets
  /\ dbLatest >= 0
  /\ latest = -1
  /\ latest' = IF dbLatest \in tipsets THEN dbLatest ELSE -1
  /\ UNCHANGED <<blockTime, ready, stopT, restarts, calls, lastError,
                 controllableAccounts, balance, nonce, messagePool,
                 messagePoolLock, miningLock, miningTimeout, pushT, mineT,
                 dealT, tipsets, blockless, dbLatest, blockMessages, deals,
                 inProcessDeals, events, applied, allDealIds>>

\* the object store is up: arm the timer when blockTime > 0, set ready and
\* emit "ready" (182-200)
initReady ==
  /\ ~ready
  /\ latest >= 0
  /\ dbLatest >= 0
  /\ miningTimeout' = (blockTime > 0)
  /\ ready' = TRUE
  /\ UNCHANGED <<blockTime, stopT, restarts, calls, lastError,
                 controllableAccounts, balance, nonce, messagePool,
                 messagePoolLock, miningLock, pushT, mineT, dealT, tipsets,
                 blockless, latest, dbLatest, blockMessages, deals,
                 inProcessDeals, events, applied, allDealIds>>

\* the database-ready callback of the constructor (110-204), one store
\* access at a time; nothing in it looks at what stop() has done
Initialize ==
  \/ initSeed
  \/ initGenesis
  \/ initKey
  \/ initLoad
  \/ initReady

\* ------------------------------------------------------------------ push
\* the checks of push before it takes the pool lock (263-292)
PushError(m) ==
  IF m.method # 0 THEN "UnsupportedMethod"
  ELSE IF m.nonce # 0 THEN "InvalidNonce"
  ELSE IF ParseProtocol(m.from) \in {"ID", "Unknown"} THEN "InvalidFrom"
  ELSE IF ParseProtocol(m.to) \in {"ID", "Unknown"} THEN "InvalidTo"
  ELSE ""

\* messagePool.filter(queuedMessage => queuedMessage.message.from === from)
PendingMessagesForAccount(pool, from) ==
  SelectSeq(pool, LAMBDA q : q.from = from)

RECURSIVE ReduceMaxNonce(_, _)
ReduceMaxNonce(s, acc) ==
  IF s = <<>> THEN acc
  ELSE ReduceMaxNonce(Tail(s), Max(acc, Head(s).nonce))

\* a nonce that is the highest pending one, not the one after it
AssignNonceNoIncrement(pool, accountNonce, from) ==
  LET pending == PendingMessagesForAccount(pool, from)
  IN IF Len(pending) = 0 THEN accountNonce
     ELSE ReduceMaxNonce(pending, accountNonce)

\* the nonce push gives to a message (304-320)
AssignNonce(pool, accountNonce, from) ==
  LET pending == PendingMessagesForAccount(pool, from)
  IN IF Len(pending) = 0 THEN accountNonce
     ELSE ReduceMaxNonce(pending, accountNonce) + 1

RECURSIVE ReduceBalanceSpent(_, _)
ReduceBalanceSpent(s, acc) ==
  IF s = <<>> THEN acc
  ELSE ReduceBalanceSpent(Tail(s),
         acc + Head(s).gasFeeCap * Head(s).gasLimit + Head(s).value)

\* a requirement that leaves out the pending messages
TotalRequiredNewOnly(pool, m) == m.gasFeeCap * m.gasLimit + m.value

\* totalRequired of push (323-335)
TotalRequired(pool, m) ==
  (m.gasFeeCap * m.gasLimit + m.value)
    + ReduceBalanceSpent(PendingMessagesForAccount(pool, m.from), 0)

\* account.balance.value < totalRequired (336)
NotEnoughFunds(pool, bal, m) == bal[m.from] < TotalRequired(pool, m)

\* push(message, spec), resumed from await this.waitForReady(): the checks,
\* then the wait for the pool lock (260-297); a push called before the
\* engine is ready does nothing until it is
push(m) ==
  /\ ready
  /\ calls < MaxCalls
  /\ calls' = calls + 1
  /\ IF PushError(m) # ""
     THEN /\ lastError' = PushError(m)
          /\ UNCHANGED <<pushT, messagePoolLock>>
     ELSE /\ pushT' = [pushT EXCEPT ![NextPush] =
               [pc |-> "wantPool", kind |-> "push",
                msg |-> [m EXCEPT !.via = "push"]]]
          /\ messagePoolLock' = Acquire(messagePoolLock, <<"push", NextPush>>)
          /\ UNCHANGED lastError
  /\ UNCHANGED <<blockTime, ready, stopT, restarts, controllableAccounts,
                 balance, nonce, messagePool, miningLock, miningTimeout,
                 mineT, dealT, tipsets, blockless, latest, dbLatest,
                 blockMessages, deals, inProcessDeals, events, applied,
                 allDealIds>>

\* a funds check whose failure path keeps the pool lock
pushAssignNonceKeepsLock(p) ==
  /\ pushT[p].kind = "push"
  /\ pushT[p].pc = "wantPool"
  /\ Granted(messagePoolLock, <<"push", p>>)
  /\ LET m == [pushT[p].msg EXCEPT
                 !.nonce = AssignNonce(messagePool, nonce[pushT[p].msg.from],
                                       pushT[p].msg.from),
                 !.raced = Applying]
     IN IF NotEnoughFunds(messagePool, balance, m)
        THEN /\ pushT' = [pushT EXCEPT ![p] = IdlePush]
             /\ lastError' = "NotEnoughFunds"
             /\ UNCHANGED messagePoolLock
        ELSE /\ pushT' = [pushT EXCEPT ![p] =
                  [@ EXCEPT !.pc = "signing", !.msg = m]]
             /\ UNCHANGED <<messagePoolLock, lastError>>
  /\ UNCHANGED <<blockTime, ready, stopT, restarts, calls,
                 controllableAccounts, balance, nonce, messagePool,
                 miningLock, miningTimeout, mineT, dealT, tipsets, blockless,
                 latest, dbLatest, blockMessages, deals, inProcessDeals,
                 events, applied, allDealIds>>

\* push, holding the pool lock: the nonce and the funds check (299-342)
pushAssignNonce(p) ==
  /\ pushT[p].kind = "push"
  /\ pushT[p].pc = "wantPool"
  /\ Granted(messagePoolLock, <<"push", p>>)
  /\ LET m == [pushT[p].msg EXCEPT
                 !.nonce = AssignNonce(messagePool, nonce[pushT[p].msg.from],
                                       pushT[p].msg.from),
                 !.raced = Applying]
     IN IF NotEnoughFunds(messagePool, balance, m)
        THEN /\ pushT' = [pushT EXCEPT ![p] = IdlePush]
             /\ lastError' = "NotEnoughFunds"
             /\ messagePoolLock' = Release(messagePoolLock)
        ELSE /\ pushT' = [pushT EXCEPT ![p] =
                  [@ EXCEPT !.pc = "signing", !.msg = m]]
             /\ UNCHANGED <<messagePoolLock, lastError>>
  /\ UNCHANGED <<blockTime, ready, stopT, restarts, calls,
                 controllableAccounts, balance, nonce, messagePool,
                 miningLock, miningTimeout, mineT, dealT, tipsets, blockless,
                 latest, dbLatest, blockMessages, deals, inProcessDeals,
                 events, applied, allDealIds>>

\* push: sign, then pushSigned(signedMessage, false) (344-355, 366-395):
\* the message check; the message goes into the pool and, when
\* instamining, mineTipset() is called (390), all with the pool lock still
\* held by push; a failing check is re-thrown by the catch of push, which
\* releases the lock (360-363)
pushAdd(p) ==
  /\ pushT[p].kind = "push"
  /\ pushT[p].pc = "signing"
  /\ IF checkMessage(pushT[p].msg) # ""
     THEN /\ lastError' = checkMessage(pushT[p].msg)
          /\ pushT' = [pushT EXCEPT ![p] = IdlePush]
          /\ messagePoolLock' = Release(messagePoolLock)
          /\ UNCHANGED <<messagePool, mineT>>
     ELSE /\ messagePool' = Append(messagePool, pushT[p].msg)
          /\ pushT' = [pushT EXCEPT ![p] = [@ EXCEPT !.pc = "added"]]
          /\ mineT' = IF blockTime = 0
                      THEN CallMineTipset(mineT, 0,
                                          messagePoolLock.free = 0, 1)
                      ELSE mineT
          /\ UNCHANGED <<lastError, messagePoolLock>>
  /\ UNCHANGED <<blockTime, ready, stopT, restarts, calls,
                 controllableAccounts, balance, nonce, miningLock,
                 miningTimeout, dealT, tipsets, blockless, latest, dbLatest,
                 blockMessages, deals, inProcessDeals, events, applied,
                 allDealIds>>

\* a push that awaits the mineTipset it has started before it releases
\* the pool lock
pushReleaseAwaitsMiner(p) ==
  /\ pushT[p].kind = "push"
  /\ pushT[p].pc = "added"
  /\ blockTime = 0 => \A t \in MineIds : mineT[t].pc = "idle"
  /\ messagePoolLock' = Release(messagePoolLock)
  /\ pushT' = [pushT EXCEPT ![p] = IdlePush]
  /\ UNCHANGED <<blockTime, ready, stopT, restarts, calls, lastError,
                 controllableAccounts, balance, nonce, messagePool,
                 miningLock, miningTimeout, mineT, dealT, tipsets, blockless,
                 latest, dbLatest, blockMessages, deals, inProcessDeals,
                 events, applied, allDealIds>>

\* push, after pushSigned has returned: release the pool lock and return
\* the signed message (357-359)
pushRelease(p) ==
  /\ pushT[p].kind = "push"
  /\ pushT[p].pc = "added"
  /\ messagePoolLock' = Release(messagePoolLock)
  /\ pushT' = [pushT EXCEPT ![p] = IdlePush]
  /\ UNCHANGED <<blockTime, ready, stopT, restarts, calls, lastError,
                 controllableAccounts, balance, nonce, messagePool,
                 miningLock, miningTimeout, mineT, dealT, tipsets, blockless,
                 latest, dbLatest, blockMessages, deals, inProcessDeals,
                 events, applied, allDealIds>>

\* ------------------------------------------------------------ pushSigned
\* pushSigned(signedMessage, acquireLock), which does not wait for the
\* engine to be ready: the message check (370-373); with acquireLock the
\* wait for the pool lock (376-378); without it the message goes into the
\* pool at once and, when instamining, mineTipset() is called (380-391)
pushSigned(m, acquireLock) ==
  /\ calls < MaxCalls
  /\ calls' = calls + 1
  /\ IF checkMessage(m) # ""
     THEN /\ lastError' = checkMessage(m)
          /\ UNCHANGED <<pushT, messagePoolLock, messagePool, mineT>>
     ELSE IF acquireLock
     THEN /\ pushT' = [pushT EXCEPT ![NextPush] =
               [pc |-> "wantPool", kind |-> "signed",
                msg |-> [m EXCEPT !.via = "signed"]]]
          /\ messagePoolLock' = Acquire(messagePoolLock, <<"push", NextPush>>)
          /\ UNCHANGED <<lastError, messagePool, mineT>>
     ELSE /\ messagePool' = Append(messagePool, [m EXCEPT !.via = "signed"])
          /\ mineT' = IF blockTime = 0
                      THEN CallMineTipset(mineT, 0, FALSE, 1)
                      ELSE mineT
          /\ UNCHANGED <<lastError, pushT, messagePoolLock>>
  /\ UNCHANGED <<blockTime, ready, stopT, restarts, controllableAccounts,
                 balance, nonce, miningLock, miningTimeout, dealT, tipsets,
                 blockless, latest, dbLatest, blockMessages, deals,
                 inProcessDeals, events, applied, allDealIds>>

\* a pushSigned that puts its message at the head of the pool
pushSignedAddFirst(p) ==
  /\ pushT[p].kind = "signed"
  /\ pushT[p].pc = "wantPool"
  /\ Granted(messagePoolLock, <<"push", p>>)
  /\ messagePool' = <<pushT[p].msg>> \o messagePool
  /\ messagePoolLock' = Release(messagePoolLock)
  /\ pushT' = [pushT EXCEPT ![p] = IdlePush]
  /\ mineT' = IF blockTime = 0 THEN CallMineTipset(mineT, 0, FALSE, 1)
              ELSE mineT
  /\ UNCHANGED <<blockTime, ready, stopT, restarts, calls, lastError,
                 controllableAccounts, balance, nonce, miningLock,
                 miningTimeout, dealT, tipsets, blockless, latest, dbLatest,
                 blockMessages, deals, inProcessDeals, events, applied,
                 allDealIds>>

\* pushSigned, given the pool lock: add, release (383), and only then the
\* instamine call (390), made without the lock (380-395)
pushSignedAdd(p) ==
  /\ pushT[p].kind = "signed"
  /\ pushT[p].pc = "wantPool"
  /\ Granted(messagePoolLock, <<"push", p>>)
  /\ messagePool' = Append(messagePool, pushT[p].msg)
  /\ messagePoolLock' = Release(messagePoolLock)
  /\ pushT' = [pushT EXCEPT ![p] = IdlePush]
  /\ mineT' = IF blockTime = 0 THEN CallMineTipset(mineT, 0, FALSE, 1)
              ELSE mineT
  /\ UNCHANGED <<blockTime, ready, stopT, restarts, calls, lastError,
                 controllableAccounts, balance, nonce, miningLock,
                 miningTimeout, dealT, tipsets, blockless, latest, dbLatest,
                 blockMessages, deals, inProcessDeals, events, applied,
                 allDealIds>>

\* ------------------------------------------------------------ mineTipset
\* an explicit mineTipset(numNewBlocks) call (406-407); one made before
\* the engine is ready does nothing until it is
mineTipset(numNewBlocks) ==
  /\ ready
  /\ calls < MaxCalls
  /\ calls' = calls + 1
  /\ mineT' = CallMineTipset(mineT, 0, FALSE, numNewBlocks)
  /\ UNCHANGED <<blockTime, ready, stopT, restarts, lastError,
                 controllableAccounts, balance, nonce, messagePool,
                 messagePoolLock, miningLock, miningTimeout, pushT, dealT,
                 tipsets, blockless, latest, dbLatest, blockMessages, deals,
                 inProcessDeals, events, applied, allDealIds>>

\* the interval timer fires (186-193)
intervalMine ==
  /\ miningTimeout
  /\ calls < MaxCalls
  /\ calls' = calls + 1
  /\ mineT' = CallMineTipset(mineT, 0, FALSE, 1)
  /\ UNCHANGED <<blockTime, ready, stopT, restarts, lastError,
                 controllableAccounts, balance, nonce, messagePool,
                 messagePoolLock, miningLock, miningTimeout, pushT, dealT,
                 tipsets, blockless, latest, dbLatest, blockMessages, deals,
                 inProcessDeals, events, applied, allDealIds>>

\* mineTipset, resumed from await this.waitForReady(): ask for the mining
\* lock (407-410)
mineStart(t) ==
  /\ mineT[t].pc = "called"
  /\ ready
  /\ miningLock' = Acquire(miningLock, <<"mine", t>>)
  /\ mineT' = [mineT EXCEPT ![t] = [@ EXCEPT !.pc = "wantMining"]]
  /\ UNCHANGED <<blockTime, ready, stopT, restarts, calls, lastError,
                 controllableAccounts, balance, nonce, messagePool,
                 messagePoolLock, miningTimeout, pushT, dealT, tipsets,
                 blockless, latest, dbLatest, blockMessages, deals,
                 inProcessDeals, events, applied, allDealIds>>

\* a mineTipset that goes on without having been given the mining lock
mineAcquirePoolUnlocked(t) ==
  /\ mineT[t].pc = "wantMining"
  /\ messagePoolLock' = Acquire(messagePoolLock, <<"mine", t>>)
  /\ mineT' = [mineT EXCEPT ![t] = [@ EXCEPT !.pc = "wantPool"]]
  /\ UNCHANGED <<blockTime, ready, stopT, restarts, calls, lastError,
                 controllableAccounts, balance, nonce, messagePool,
                 miningLock, miningTimeout, pushT, dealT, tipsets, blockless,
                 latest, dbLatest, blockMessages, deals, inProcessDeals,
                 events, applied, allDealIds>>

\* mineTipset, holding the mining lock: ask for the pool lock (410-416)
mineAcquirePool(t) ==
  /\ mineT[t].pc = "wantMining"
  /\ Granted(miningLock, <<"mine", t>>)
  /\ messagePoolLock' = Acquire(messagePoolLock, <<"mine", t>>)
  /\ mineT' = [mineT EXCEPT ![t] = [@ EXCEPT !.pc = "wantPool"]]
  /\ UNCHANGED <<blockTime, ready, stopT, restarts, calls, lastError,
                 controllableAccounts, balance, nonce, messagePool,
                 miningLock, miningTimeout, pushT, dealT, tipsets, blockless,
                 latest, dbLatest, blockMessages, deals, inProcessDeals,
                 events, applied, allDealIds>>

\* where the loop over the batch goes after message idx (448, 466, 488, 506)
NextInBatch(m) ==
  IF m.idx < Len(m.batch)
  THEN [m EXCEPT !.idx = @ + 1, !.pc = "fee"]
  ELSE [m EXCEPT !.idx = @ + 1, !.pc = "putBlockMessages"]

\* an exception leaves mineTipset through its catch and rejects the
\* promise the startDeal of the invocation awaits, if there is one
\* (548-551, 699)
RaiseTo(dT, owner) ==
  IF owner = 0 THEN dT ELSE [dT EXCEPT ![owner] = IdleDeal]

\* mineTipset, holding both locks: drain the pool, release the pool lock,
\* fix the height and build the block headers on the first block of the
\* latest tipset, which throws when that tipset has no block (417-446)
mineDrain(t) ==
  /\ mineT[t].pc = "wantPool"
  /\ Granted(messagePoolLock, <<"mine", t>>)
  /\ latest >= 0
  /\ messagePool' = <<>>
  /\ messagePoolLock' = Release(messagePoolLock)
  /\ IF mineT[t].hasBlocks /\ latest \in blockless
     THEN /\ miningLock' = Release(miningLock)
          /\ mineT' = [mineT EXCEPT ![t] = IdleMine]
          /\ dealT' = RaiseTo(dealT, mineT[t].owner)
     ELSE /\ mineT' = [mineT EXCEPT ![t] =
                [@ EXCEPT !.batch = messagePool,
                          !.height = latest + 1,
                          !.idx = IF Len(messagePool) > 0 THEN 1 ELSE 0,
                          !.pc = IF Len(messagePool) > 0 THEN "fee"
                                 ELSE "putTipset"]]
          /\ UNCHANGED <<miningLock, dealT>>
  /\ UNCHANGED <<blockTime, ready, stopT, restarts, calls, lastError,
                 controllableAccounts, balance, nonce, miningTimeout, pushT,
                 tipsets, blockless, latest, dbLatest, blockMessages, deals,
                 inProcessDeals, events, applied, allDealIds>>

\* the base fee (when there is one) and the miner fee of message idx (451-489)
mineFees(t) ==
  /\ mineT[t].pc = "fee"
  /\ LET m == mineT[t].batch[mineT[t].idx]
         burn == IF getBaseFee # 0
                 THEN TransferFunds(balance, m.from, BurntFundsAddress,
                                    getMinerFee(m))
                 ELSE [ok |-> TRUE, bal |-> balance]
         fee == IF burn.ok
                THEN TransferFunds(burn.bal, m.from, MinerAddress,
                                   getMinerFee(m))
                ELSE burn
     IN /\ balance' = fee.bal
        /\ mineT' = [mineT EXCEPT ![t] =
              IF fee.ok THEN [@ EXCEPT !.pc = "value"]
              ELSE NextInBatch(@)]
  /\ UNCHANGED <<blockTime, ready, stopT, restarts, calls, lastError,
                 controllableAccounts, nonce, messagePool, messagePoolLock,
                 miningLock, miningTimeout, pushT, dealT, tipsets, blockless,
                 latest, dbLatest, blockMessages, deals, inProcessDeals,
                 events, applied, allDealIds>>

\* an application that counts a message whose principal was refused
mineValueCountsSkipped(t) ==
  /\ mineT[t].pc = "value"
  /\ LET m == mineT[t].batch[mineT[t].idx]
         r == TransferFunds(balance, m.from, m.to, m.value)
     IN /\ balance' = r.bal
        /\ mineT' = [mineT EXCEPT ![t] = [@ EXCEPT !.pc = "nonce"]]
  /\ UNCHANGED <<blockTime, ready, stopT, restarts, calls, lastError,
                 controllableAccounts, nonce, messagePool, messagePoolLock,
                 miningLock, miningTimeout, pushT, dealT, tipsets, blockless,
                 latest, dbLatest, blockMessages, deals, inProcessDeals,
                 events, applied, allDealIds>>

\* the principal of message idx (491-508)
mineValue(t) ==
  /\ mineT[t].pc = "value"
  /\ LET m == mineT[t].batch[mineT[t].idx]
         r == TransferFunds(balance, m.from, m.to, m.value)
     IN /\ balance' = r.bal
        /\ mineT' = [mineT EXCEPT ![t] =
              IF r.ok THEN [@ EXCEPT !.pc = "nonce"]
              ELSE NextInBatch(@)]
  /\ UNCHANGED <<blockTime, ready, stopT, restarts, calls, lastError,
                 controllableAccounts, nonce, messagePool, messagePoolLock,
                 miningLock, miningTimeout, pushT, dealT, tipsets, blockless,
                 latest, dbLatest, blockMessages, deals, inProcessDeals,
                 events, applied, allDealIds>>

\* the principal was transferred: the sender's nonce, and the message
\* joins the successful ones (510-512)
mineNonce(t) ==
  /\ mineT[t].pc = "nonce"
  /\ LET m == mineT[t].batch[mineT[t].idx]
     IN /\ nonce' = IncrementNonce(nonce, m.from)
        /\ applied' = Append(applied, m)
        /\ mineT' = [mineT EXCEPT ![t] =
              NextInBatch([@ EXCEPT !.succ = Append(@, m)])]
  /\ UNCHANGED <<blockTime, ready, stopT, restarts, calls, lastError,
                 controllableAccounts, balance, messagePool, messagePoolLock,
                 miningLock, miningTimeout, pushT, dealT, tipsets, blockless,
                 latest, dbLatest, blockMessages, deals, inProcessDeals,
                 events, allDealIds>>

\* putBlockMessages(newBlocks[0].cid, successfulMessages) after a batch
\* that was not empty; newBlocks[0].cid throws when there is no block
\* (515-520)
minePutBlockMessages(t) ==
  /\ mineT[t].pc = "putBlockMessages"
  /\ IF mineT[t].hasBlocks
     THEN /\ blockMessages' =
               {r \in blockMessages : r.height # mineT[t].height}
                 \cup {[height |-> mineT[t].height,
                        messages |-> mineT[t].succ]}
          /\ mineT' = [mineT EXCEPT ![t] = [@ EXCEPT !.pc = "putTipset"]]
          /\ UNCHANGED <<miningLock, dealT>>
     ELSE /\ miningLock' = Release(miningLock)
          /\ mineT' = [mineT EXCEPT ![t] = IdleMine]
          /\ dealT' = RaiseTo(dealT, mineT[t].owner)
          /\ UNCHANGED blockMessages
  /\ UNCHANGED <<blockTime, ready, stopT, restarts, calls, lastError,
                 controllableAccounts, balance, nonce, messagePool,
                 messagePoolLock, miningTimeout, pushT, tipsets, blockless,
                 latest, dbLatest, deals, inProcessDeals, events, applied,
                 allDealIds>>

\* a commit that writes the latest-tipset key where it should put the
\* tipset
minePutTipsetKeyFirst(t) ==
  /\ mineT[t].pc = "putTipset"
  /\ dbLatest' = mineT[t].height
  /\ mineT' = [mineT EXCEPT ![t] = [@ EXCEPT !.pc = "putLatest"]]
  /\ UNCHANGED <<blockTime, ready, stopT, restarts, calls, lastError,
                 controllableAccounts, balance, nonce, messagePool,
                 messagePoolLock, miningLock, miningTimeout, pushT, dealT,
                 tipsets, blockless, latest, blockMessages, deals,
                 inProcessDeals, events, applied, allDealIds>>

\* tipsetManager.putTipset(newTipset), which also makes it the latest
\* tipset (522-527)
minePutTipset(t) ==
  /\ mineT[t].pc = "putTipset"
  /\ tipsets' = tipsets \cup {mineT[t].height}
  /\ blockless' = IF mineT[t].hasBlocks
                  THEN blockless \ {mineT[t].height}
                  ELSE blockless \cup {mineT[t].height}
  /\ latest' = mineT[t].height
  /\ mineT' = [mineT EXCEPT ![t] = [@ EXCEPT !.pc = "putLatest"]]
  /\ UNCHANGED <<blockTime, ready, stopT, restarts, calls, lastError,
                 controllableAccounts, balance, nonce, messagePool,
                 messagePoolLock, miningLock, miningTimeout, pushT, dealT,
                 dbLatest, blockMessages, deals, inProcessDeals, events,
                 applied, allDealIds>>

\* a commit that leaves the latest-tipset key alone
minePutLatestSkipped(t) ==
  /\ mineT[t].pc = "putLatest"
  /\ mineT' = [mineT EXCEPT ![t] = [@ EXCEPT !.pc = "advance"]]
  /\ UNCHANGED <<blockTime, ready, stopT, restarts, calls, lastError,
                 controllableAccounts, balance, nonce, messagePool,
                 messagePoolLock, miningLock, miningTimeout, pushT, dealT,
                 tipsets, blockless, latest, dbLatest, blockMessages, deals,
                 inProcessDeals, events, applied, allDealIds>>

\* db.put("latest-tipset", newTipsetHeight) (528-531)
minePutLatest(t) ==
  /\ mineT[t].pc = "putLatest"
  /\ dbLatest' = mineT[t].height
  /\ mineT' = [mineT EXCEPT ![t] = [@ EXCEPT !.pc = "advance"]]
  /\ UNCHANGED <<blockTime, ready, stopT, restarts, calls, lastError,
                 controllableAccounts, balance, nonce, messagePool,
                 messagePoolLock, miningLock, miningTimeout, pushT, dealT,
                 tipsets, blockless, latest, blockMessages, deals,
                 inProcessDeals, events, applied, allDealIds>>

\* the positions of an invocation before each write of its commit
\* (514-531)
WritePcs == {"putBlockMessages", "putTipset", "putLatest"}

\* the exception of an invocation that releases the mining lock twice
mineWriteFailsReleasesTwice(t) ==
  /\ mineT[t].pc \in WritePcs
  /\ calls < MaxCalls
  /\ calls' = calls + 1
  /\ miningLock' = Release(Release(miningLock))
  /\ mineT' = [mineT EXCEPT ![t] = IdleMine]
  /\ dealT' = RaiseTo(dealT, mineT[t].owner)
  /\ UNCHANGED <<blockTime, ready, stopT, restarts, lastError,
                 controllableAccounts, balance, nonce, messagePool,
                 messagePoolLock, miningTimeout, pushT, tipsets, blockless,
                 latest, dbLatest, blockMessages, deals, inProcessDeals,
                 events, applied, allDealIds>>

\* a catch that puts the drained messages back into the pool
mineWriteFailsRollsBack(t) ==
  /\ mineT[t].pc \in WritePcs
  /\ calls < MaxCalls
  /\ calls' = calls + 1
  /\ messagePool' = mineT[t].batch \o messagePool
  /\ miningLock' = Release(miningLock)
  /\ mineT' = [mineT EXCEPT ![t] = IdleMine]
  /\ dealT' = RaiseTo(dealT, mineT[t].owner)
  /\ UNCHANGED <<blockTime, ready, stopT, restarts, lastError,
                 controllableAccounts, balance, nonce, messagePoolLock,
                 miningTimeout, pushT, tipsets, blockless, latest, dbLatest,
                 blockMessages, deals, inProcessDeals, events, applied,
                 allDealIds>>

\* the write an invocation is about to make throws: the writes before it
\* are done, this one and the ones after it are not; the catch releases
\* the mining lock and re-throws (514-531, 548-551); a failure of the
\* store counts as one of the MaxCalls events of a run
mineWriteFails(t) ==
  /\ mineT[t].pc \in WritePcs
  /\ calls < MaxCalls
  /\ calls' = calls + 1
  /\ miningLock' = Release(miningLock)
  /\ mineT' = [mineT EXCEPT ![t] = IdleMine]
  /\ dealT' = RaiseTo(dealT, mineT[t].owner)
  /\ UNCHANGED <<blockTime, ready, stopT, restarts, lastError,
                 controllableAccounts, balance, nonce, messagePool,
                 messagePoolLock, miningTimeout, pushT, tipsets, blockless,
                 latest, dbLatest, blockMessages, deals, inProcessDeals,
                 events, applied, allDealIds>>

\* ----------------------------------------------------------------- deals
Validating == 0
Active == DealSteps
\* DealInfo.advanceState: the next state of the linear table
advanceState(d) == [d EXCEPT !.state = @ + 1]

\* for (const deal of this.inProcessDeals) { advance; splice when Active }:
\* the iterator is at position i of the array as it is now (534-541)
RECURSIVE AdvanceDeals(_, _, _)
AdvanceDeals(i, inProc, ds) ==
  IF i > Len(inProc) THEN [inProcessDeals |-> inProc, deals |-> ds]
  ELSE LET d == inProc[i]
           ds2 == [ds EXCEPT ![d] = advanceState(@)]
       IN IF ds2[d].state = Active
          THEN AdvanceDeals(i + 1, RemoveAt(inProc, IndexOf(inProc, d)), ds2)
          ELSE AdvanceDeals(i + 1, inProc, ds2)

\* every deal that is in process when a tipset is committed has seen one
\* more tipset
RECURSIVE CountRound(_, _)
CountRound(ds, inProc) ==
  IF inProc = <<>> THEN ds
  ELSE CountRound([ds EXCEPT ![Head(inProc)].rounds = @ + 1], Tail(inProc))

\* advance the deals; logLatestTipset, which throws when the latest tipset
\* has no block; emit the tipset event, release the mining lock and resume
\* the startDeal that awaits this invocation (533-551)
mineCommit(t) ==
  /\ mineT[t].pc = "advance"
  /\ LET adv == AdvanceDeals(1, inProcessDeals,
                             CountRound(deals, inProcessDeals))
     IN /\ deals' = adv.deals
        /\ inProcessDeals' = adv.inProcessDeals
  /\ miningLock' = Release(miningLock)
  /\ mineT' = [mineT EXCEPT ![t] = IdleMine]
  /\ IF latest \in blockless
     THEN /\ dealT' = RaiseTo(dealT, mineT[t].owner)
          /\ UNCHANGED events
     ELSE /\ events' = Append(events, mineT[t].height)
          /\ dealT' = IF mineT[t].owner = 0 THEN dealT
                      ELSE [dealT EXCEPT ![mineT[t].owner] =
                              [@ EXCEPT !.pc = "mined"]]
  /\ UNCHANGED <<blockTime, ready, stopT, restarts, calls, lastError,
                 controllableAccounts, balance, nonce, messagePool,
                 messagePoolLock, miningTimeout, pushT, tipsets, blockless,
                 latest, dbLatest, blockMessages, applied, allDealIds>>

\* ------------------------------------------------------------- startDeal
\* new DealInfo({... dealId: this.deals.length + 1}) (672-686)
NewDeal(ds) == [dealId |-> Len(ds) + 1, state |-> Validating, rounds |-> 0]

\* the invocation of startDeal for the deal it has registered: the price is
\* BigInt(deal.pricePerEpoch) * BigInt(deal.duration) (703)
DealTask(pc, deal, w, miner, epochPrice, duration) ==
  [pc |-> pc, deal |-> deal, wallet |-> w, miner |-> miner,
   price |-> epochPrice * duration]

\* a startDeal that numbers its deal by the deals still in process
startDealCountsInProcess(w, miner, epochPrice, duration) ==
  /\ ready
  /\ calls < MaxCalls
  /\ calls' = calls + 1
  /\ IF w = NoAddr \/ w \notin controllableAccounts
     THEN UNCHANGED <<dealT, deals, inProcessDeals, allDealIds, mineT>>
     ELSE /\ deals' = Append(deals, NewDeal(inProcessDeals))
          /\ inProcessDeals' = Append(inProcessDeals, Len(deals) + 1)
          /\ allDealIds' = Append(allDealIds, NewDeal(inProcessDeals).dealId)
          /\ IF blockTime = 0 /\ NewDeal(deals).state # Active
             THEN /\ mineT' = CallMineTipset(mineT, NextDeal, FALSE, 1)
                  /\ dealT' = [dealT EXCEPT ![NextDeal] =
                        DealTask("mining", Len(deals) + 1, w, miner,
                                 epochPrice, duration)]
             ELSE /\ dealT' = [dealT EXCEPT ![NextDeal] =
                        DealTask("pay", Len(deals) + 1, w, miner,
                                 epochPrice, duration)]
                  /\ UNCHANGED mineT
  /\ UNCHANGED <<blockTime, ready, stopT, restarts, lastError,
                 controllableAccounts, balance, nonce, messagePool,
                 messagePoolLock, miningLock, miningTimeout, pushT, tipsets,
                 blockless, latest, dbLatest, blockMessages, events, applied>>

\* startDeal(proposal): the wallet checks, then create and register the
\* deal; when instamining, the first call of mineTipset, which yields at
\* its waitForReady (642-699); a call made before the engine is ready
\* does nothing until it is
startDeal(w, miner, epochPrice, duration) ==
  /\ ready
  /\ calls < MaxCalls
  /\ calls' = calls + 1
  /\ IF w = NoAddr \/ w \notin controllableAccounts
     THEN UNCHANGED <<dealT, deals, inProcessDeals, allDealIds, mineT>>
     ELSE /\ deals' = Append(deals, NewDeal(deals))
          /\ inProcessDeals' = Append(inProcessDeals, Len(deals) + 1)
          /\ allDealIds' = Append(allDealIds, NewDeal(deals).dealId)
          /\ IF blockTime = 0 /\ NewDeal(deals).state # Active
             THEN /\ mineT' = CallMineTipset(mineT, NextDeal, FALSE, 1)
                  /\ dealT' = [dealT EXCEPT ![NextDeal] =
                        DealTask("mining", Len(deals) + 1, w, miner,
                                 epochPrice, duration)]
             ELSE /\ dealT' = [dealT EXCEPT ![NextDeal] =
                        DealTask("pay", Len(deals) + 1, w, miner,
                                 epochPrice, duration)]
                  /\ UNCHANGED mineT
  /\ UNCHANGED <<blockTime, ready, stopT, restarts, lastError,
                 controllableAccounts, balance, nonce, messagePool,
                 messagePoolLock, miningLock, miningTimeout, pushT, tipsets,
                 blockless, latest, dbLatest, blockMessages, events, applied>>

\* a startDeal that leaves its mining loop after the first tipset
dealLoopOnce(d) ==
  /\ dealT[d].pc = "mined"
  /\ dealT' = [dealT EXCEPT ![d] = [@ EXCEPT !.pc = "pay"]]
  /\ UNCHANGED <<blockTime, ready, stopT, restarts, calls, lastError,
                 controllableAccounts, balance, nonce, messagePool,
                 messagePoolLock, miningLock, miningTimeout, pushT, mineT,
                 tipsets, blockless, latest, dbLatest, blockMessages, deals,
                 inProcessDeals, events, applied, allDealIds>>

\* startDeal: the awaited mineTipset has returned; next turn of
\* while (deal.state !== Active) (697-701)
dealLoop(d) ==
  /\ dealT[d].pc = "mined"
  /\ IF deals[dealT[d].deal].state # Active
     THEN /\ mineT' = CallMineTipset(mineT, d, FALSE, 1)
          /\ dealT' = [dealT EXCEPT ![d] = [@ EXCEPT !.pc = "mining"]]
     ELSE /\ dealT' = [dealT EXCEPT ![d] = [@ EXCEPT !.pc = "pay"]]
          /\ UNCHANGED mineT
  /\ UNCHANGED <<blockTime, ready, stopT, restarts, calls, lastError,
                 controllableAccounts, balance, nonce, messagePool,
                 messagePoolLock, miningLock, miningTimeout, pushT, tipsets,
                 blockless, latest, dbLatest, blockMessages, deals,
                 inProcessDeals, events, applied, allDealIds>>

\* startDeal: pay proposal.miner, whatever transferFunds answers (703-711)
dealPay(d) ==
  /\ dealT[d].pc = "pay"
  /\ balance' = TransferFunds(balance, dealT[d].wallet, dealT[d].miner,
                              dealT[d].price).bal
  /\ dealT' = [dealT EXCEPT ![d] = IdleDeal]
  /\ UNCHANGED <<blockTime, ready, stopT, restarts, calls, lastError,
                 controllableAccounts, nonce, messagePool, messagePoolLock,
                 miningLock, miningTimeout, pushT, mineT, tipsets, blockless,
                 latest, dbLatest, blockMessages, deals, inProcessDeals,
                 events, applied, allDealIds>>

\* retrieve(retrievalOrder, ref) of an object that is local, by a client
\* whose key is known: retrievalOrder.total goes to retrievalOrder.miner
\* (727-752)
retrieve(client, miner, total) ==
  /\ ready
  /\ calls < MaxCalls
  /\ calls' = calls + 1
  /\ client \in controllableAccounts
  /\ balance' = TransferFunds(balance, client, miner, total).bal
  /\ UNCHANGED <<blockTime, ready, stopT, restarts, lastError,
                 controllableAccounts, nonce, messagePool, messagePoolLock,
                 miningLock, miningTimeout, pushT, mineT, dealT, tipsets,
                 blockless, latest, dbLatest, blockMessages, deals,
                 inProcessDeals, events, applied, allDealIds>>

\* ------------------------------------------------------------------ stop
\* a stop() that asks for the pool lock first
stopPoolFirst ==
  /\ \E s \in StopIds : stopT[s] = "idle"
  /\ calls < MaxCalls
  /\ calls' = calls + 1
  /\ messagePoolLock' = Acquire(messagePoolLock, <<"stop", NextStop>>)
  /\ stopT' = [stopT EXCEPT ![NextStop] = "wantMining"]
  /\ UNCHANGED <<blockTime, ready, restarts, lastError, controllableAccounts,
                 balance, nonce, messagePool, miningLock, miningTimeout,
                 pushT, mineT, dealT, tipsets, blockless, latest, dbLatest,
                 blockMessages, deals, inProcessDeals, events, applied,
                 allDealIds>>

\* stop(): ask for the mining lock; it neither waits for the engine to be
\* ready nor looks at an earlier stop() (220-223)
stop ==
  /\ \E s \in StopIds : stopT[s] = "idle"
  /\ calls < MaxCalls
  /\ calls' = calls + 1
  /\ miningLock' = Acquire(miningLock, <<"stop", NextStop>>)
  /\ stopT' = [stopT EXCEPT ![NextStop] = "wantMining"]
  /\ UNCHANGED <<blockTime, ready, restarts, lastError, controllableAccounts,
                 balance, nonce, messagePool, messagePoolLock, miningTimeout,
                 pushT, mineT, dealT, tipsets, blockless, latest, dbLatest,
                 blockMessages, deals, inProcessDeals, events, applied,
                 allDealIds>>

\* stop(), holding the mining lock: ask for the pool lock (224)
stopAcquirePool(s) ==
  /\ stopT[s] = "wantMining"
  /\ Granted(miningLock, <<"stop", s>>)
  /\ messagePoolLock' = Acquire(messagePoolLock, <<"stop", s>>)
  /\ stopT' = [stopT EXCEPT ![s] = "wantPool"]
  /\ UNCHANGED <<blockTime, ready, restarts, calls, lastError,
                 controllableAccounts, balance, nonce, messagePool,
                 miningLock, miningTimeout, pushT, mineT, dealT, tipsets,
                 blockless, latest, dbLatest, blockMessages, deals,
                 inProcessDeals, events, applied, allDealIds>>

\* stop(), holding both locks: clear the timer if there is one and ask the
\* IPFS server to stop (226-230)
stopClearTimer(s) ==
  /\ stopT[s] = "wantPool"
  /\ Granted(messagePoolLock, <<"stop", s>>)
  /\ miningTimeout' = FALSE
  /\ stopT' = [stopT EXCEPT ![s] = "ipfsStop"]
  /\ UNCHANGED <<blockTime, ready, restarts, calls, lastError,
                 controllableAccounts, balance, nonce, messagePool,
                 messagePoolLock, miningLock, pushT, mineT, dealT, tipsets,
                 blockless, latest, dbLatest, blockMessages, deals,
                 inProcessDeals, events, applied, allDealIds>>

\* stop(): the IPFS server has stopped; ask the store to close (230-233)
stopIpfs(s) ==
  /\ stopT[s] = "ipfsStop"
  /\ stopT' = [stopT EXCEPT ![s] = "databaseClose"]
  /\ UNCHANGED <<blockTime, ready, restarts, calls, lastError,
                 controllableAccounts, balance, nonce, messagePool,
                 messagePoolLock, miningLock, miningTimeout, pushT, mineT,
                 dealT, tipsets, blockless, latest, dbLatest, blockMessages,
                 deals, inProcessDeals, events, applied, allDealIds>>

\* stop(): the store is closed and the invocation returns (233-235)
stopClose(s) ==
  /\ stopT[s] = "databaseClose"
  /\ stopT' = [stopT EXCEPT ![s] = "stopped"]
  /\ UNCHANGED <<blockTime, ready, restarts, calls, lastError,
                 controllableAccounts, balance, nonce, messagePool,
                 messagePoolLock, miningLock, miningTimeout, pushT, mineT,
                 dealT, tipsets, blockless, latest, dbLatest, blockMessages,
                 deals, inProcessDeals, events, applied, allDealIds>>

\* a stop() has returned: the store is closed
Stopped == \E s \in StopIds : stopT[s] = "stopped"

\* a new Blockchain on the key/value store of a stopped one, made once the
\* initialisation of the old one has run to its end (78-109): the fields
\* of the object are fresh, the invocations of the old one are gone
Restart ==
  /\ Stopped
  /\ ready
  /\ restarts < MaxRestarts
  /\ restarts' = restarts + 1
  /\ ready' = FALSE
  /\ stopT' = [s \in StopIds |-> "idle"]
  /\ messagePool' = <<>>
  /\ messagePoolLock' = NewSema
  /\ miningLock' = NewSema
  /\ miningTimeout' = FALSE
  /\ latest' = -1
  /\ deals' = <<>>
  /\ inProcessDeals' = <<>>
  /\ pushT' = [p \in PushIds |-> IdlePush]
  /\ mineT' = [t \in MineIds |-> IdleMine]
  /\ dealT' = [d \in DealIds |-> IdleDeal]
  /\ UNCHANGED <<blockTime, calls, lastError, controllableAccounts, balance,
                 nonce, tipsets, blockless, dbLatest, blockMessages, events,
                 applied, allDealIds>>

\* ------------------------------------------------------------------ Next
\* the continuations of mineTipset
MineSteps ==
  \/ \E t \in MineIds : mineStart(t)
  \/ \E t \in MineIds : mineAcquirePool(t)
  \/ \E t \in MineIds : mineDrain(t)
  \/ \E t \in MineIds : mineFees(t)
  \/ \E t \in MineIds : mineValue(t)
  \/ \E t \in MineIds : mineNonce(t)
  \/ \E t \in MineIds : minePutBlockMessages(t)
  \/ \E t \in MineIds : minePutTipset(t)
  \/ \E t \in MineIds : minePutLatest(t)
  \/ \E t \in MineIds : mineCommit(t)

\* the calls of startDeal and retrieve
DealCalls ==
  \/ \E w \in {AddrA, MinerAddress, NoAddr} : \E mi \in PayeeInputs :
       \E e \in EpochPriceInputs : \E du \in DurationInputs :
         startDeal(w, mi, e, du)
  \/ \E c \in {AddrA, MinerAddress} : \E mi \in PayeeInputs :
       \E to \in TotalInputs : retrieve(c, mi, to)

\* the steps every run of the engine has
Common ==
  \/ Initialize
  \/ \E m \in PushInputs : push(m)
  \/ \E p \in PushIds : pushAssignNonce(p)
  \/ \E p \in PushIds : pushAdd(p)
  \/ \E p \in PushIds : pushRelease(p)
  \/ intervalMine
  \/ MineSteps
  \/ DealCalls
  \/ \E d \in DealIds : dealLoop(d)
  \/ \E d \in DealIds : dealPay(d)
  \/ stop
  \/ \E s \in StopIds : stopAcquirePool(s)
  \/ \E s \in StopIds : stopClearTimer(s)
  \/ \E s \in StopIds : stopIpfs(s)
  \/ \E s \in StopIds : stopClose(s)
  \/ Restart

\* the calls of pushSigned
SignedSteps ==
  \/ \E m \in SignedInputs : \E a \in BOOLEAN : pushSigned(m, a)
  \/ \E p \in PushIds : pushSignedAdd(p)

\* the engine whose callers ask mineTipset for tipsets that have a block
Next ==
  \/ Common
  \/ SignedSteps
  \/ \E n \in NumNewBlocks : mineTipset(n)

Spec == Init /\ [][Next]_vars

\* the engine driven through push only: no caller hands in a signed
\* message with a nonce of its own
NextNoSigned ==
  \/ Common
  \/ \E n \in NumNewBlocks : mineTipset(n)

SpecNoSigned == Init /\ [][NextNoSigned]_vars

\* the engine with a key/value store whose writes can fail during the
\* commit of a tipset, and with callers that ask mineTipset for any number
\* of blocks
NextFault ==
  \/ Common
  \/ SignedSteps
  \/ \E n \in AnyNumNewBlocks : mineTipset(n)
  \/ \E t \in MineIds : mineWriteFails(t)

SpecFault == Init /\ [][NextFault]_vars

\* the continuations of the invocations in progress on an engine that
\* was made on an empty store: what the event loop runs when the awaited
\* promise is settled
Progress ==
  \/ initSeed
  \/ initGenesis
  \/ initKey
  \/ initReady
  \/ \E p \in PushIds : pushAssignNonce(p)
  \/ \E p \in PushIds : pushAdd(p)
  \/ \E p \in PushIds : pushRelease(p)
  \/ \E p \in PushIds : pushSignedAdd(p)
  \/ MineSteps
  \/ \E d \in DealIds : dealLoop(d)
  \/ \E d \in DealIds : dealPay(d)

\* messages that take each way through push: accepted, refused before
\* the pool lock, refused for funds once one is pending, refused by the
\* message check
LivePushInputs ==
  { Transfer(AddrA, AddrB, 2),
    [Transfer(AddrA, AddrB, 1) EXCEPT !.ok = FALSE],
    [Transfer(AddrA, AddrB, 1) EXCEPT !.method = 2] }

\* the engine on which stop() is never called
NextLive ==
  \/ \E m \in LivePushInputs : push(m)
  \/ \E m \in SignedInputs : pushSigned(m, TRUE)
  \/ \E n \in NumNewBlocks : mineTipset(n)
  \/ intervalMine
  \/ \E w \in {AddrA, NoAddr} : startDeal(w, MinerAddress, 1, 2)
  \/ Progress

\* the event loop runs a continuation that is ready: as long as one is, one
\* of them is run
SpecLive == Init /\ [][NextLive]_vars /\ WF_vars(Progress)

\* the engine on which stop() is never called, with a key/value store
\* whose writes can fail during the commit of a tipset and with callers
\* that ask mineTipset for no block
NextLiveFault ==
  \/ NextLive
  \/ mineTipset(0)
  \/ \E t \in MineIds : mineWriteFails(t)

\* a write that can fail need not fail: fairness is on the continuations
SpecLiveFault == Init /\ [][NextLiveFault]_vars /\ WF_vars(Progress)

\* ---------------------------------------------------------------- claims
\* the messages of sender a in a sequence of messages, in order
From(s, a) == SelectSeq(s, LAMBDA m : m.from = a)

\* the part of its batch a mineTipset invocation has not applied yet
RECURSIVE BatchesLeft(_)
BatchesLeft(ts) ==
  IF ts = {} THEN <<>>
  ELSE LET t == CHOOSE u \in ts : \A v \in ts : u <= v
       IN (IF mineT[t].pc \in {"fee", "value", "nonce"}
           THEN SubSeq(mineT[t].batch, mineT[t].idx, Len(mineT[t].batch))
           ELSE <<>>) \o BatchesLeft(ts \ {t})

\* every message push has accepted and mining has not dropped: applied,
\* drained and waiting in a batch, or pending in the pool
Accepted == applied \o BatchesLeft(MineIds) \o messagePool

\* C1: for each sender the nonces of the applied messages, in application
\* order, are 0, 1, 2, ... (strictly increasing, contiguous, from 0)
C1_NonceMonotonicity ==
  \A a \in Controllable :
    \A i \in 1..Len(From(applied, a)) : From(applied, a)[i].nonce = i - 1

\* C2: any two messages accepted by push from the same sender carry
\* different nonces
C2_DistinctNonces ==
  \A a \in Controllable :
    \A i, j \in 1..Len(From(Accepted, a)) :
      i # j => From(Accepted, a)[i].nonce # From(Accepted, a)[j].nonce

\* C3: the messages a sender pushed with no mining in between (none of
\* them was given its nonce while a batch was being applied) sit in the
\* pool with the nonces n, n+1, ..., n+k-1, n the committed nonce; and when
\* a mineTipset has gone through a batch of such messages without skipping
\* one of the sender's, it has applied them in that order and the committed
\* nonce is n+k
C3_PoolBatching ==
  \A a \in Controllable :
    /\ (\A i \in 1..Len(From(messagePool, a)) :
          ~From(messagePool, a)[i].raced)
         => \A i \in 1..Len(From(messagePool, a)) :
              From(messagePool, a)[i].nonce = nonce[a] + i - 1
    /\ \A t \in MineIds :
         (/\ mineT[t].pc = "putBlockMessages"
          /\ Len(From(mineT[t].batch, a)) > 0
          /\ \A i \in 1..Len(From(mineT[t].batch, a)) :
               ~From(mineT[t].batch, a)[i].raced
          /\ Len(From(mineT[t].succ, a)) = Len(From(mineT[t].batch, a)))
         => /\ From(mineT[t].succ, a) = From(mineT[t].batch, a)
            /\ \A i \in 1..Len(From(mineT[t].batch, a)) :
                 From(mineT[t].batch, a)[i].nonce
                   = From(mineT[t].batch, a)[1].nonce + i - 1
            /\ nonce[a] = From(mineT[t].batch, a)[1].nonce
                            + Len(From(mineT[t].batch, a))

\* two messages of one sender, pushed with no mining in between, have gone
\* through one mineTipset together and both were applied
C3_Witness ==
  \E t \in MineIds :
    /\ mineT[t].pc = "putBlockMessages"
    /\ Len(From(mineT[t].batch, AddrA)) = 2
    /\ \A i \in 1..2 : ~From(mineT[t].batch, AddrA)[i].raced
    /\ Len(From(mineT[t].succ, AddrA)) = 2
    /\ nonce[AddrA] = 2

\* C4: once all accounts are seeded, the balances of all accounts (the
\* burnt-funds account and the miner included) add up to the same amount
\* in every state
RECURSIVE SumOver(_, _)
SumOver(f, as) ==
  IF as = {} THEN 0
  ELSE LET a == CHOOSE x \in as : TRUE IN f[a] + SumOver(f, as \ {a})

C4_BalanceConservation ==
  controllableAccounts = Controllable =>
    SumOver(balance, Addrs) = DefaultBalance * Cardinality(Controllable)

\* a mining round has debited the fee of a message it then skipped, a deal
\* was paid to the miner the proposal names, and the engine's miner holds
\* the fee
C4_Witness ==
  /\ balance[MinerAddress] >= 1
  /\ balance[AddrB] > DefaultBalance
  /\ deals # <<>>
  /\ \E t \in MineIds :
       /\ mineT[t].pc = "putBlockMessages"
       /\ Len(mineT[t].succ) < Len(mineT[t].batch)

\* invocation s of stop() holds the mining lock
StopHoldsMining(s) ==
  \/ stopT[s] \in {"wantPool", "ipfsStop", "databaseClose", "stopped"}
  \/ stopT[s] = "wantMining" /\ Granted(miningLock, <<"stop", s>>)

\* invocation s of stop() holds the pool lock, and the mining lock with it
StopHoldsPool(s) ==
  \/ stopT[s] \in {"ipfsStop", "databaseClose", "stopped"}
  \/ stopT[s] = "wantPool" /\ Granted(messagePoolLock, <<"stop", s>>)

\* a stop() holds both locks
StopHoldsBoth == \E s \in StopIds : StopHoldsPool(s)

\* who holds the pool lock
PoolHolders ==
  Cardinality({p \in PushIds :
                 \/ pushT[p].pc \in {"signing", "added"}
                 \/ /\ pushT[p].pc = "wantPool"
                    /\ Granted(messagePoolLock, <<"push", p>>)})
  + Cardinality({t \in MineIds :
                   /\ mineT[t].pc = "wantPool"
                   /\ Granted(messagePoolLock, <<"mine", t>>)})
  + Cardinality({s \in StopIds : StopHoldsPool(s)})

\* a step in which a push or a pushSigned raises
SubmissionFails ==
  \/ \E m \in PushInputs : push(m) /\ PushError(m) # ""
  \/ \E p \in PushIds : pushAssignNonce(p) /\ pushT'[p].pc = "idle"
  \/ \E p \in PushIds : pushAdd(p) /\ checkMessage(pushT[p].msg) # ""
  \/ \E m \in SignedInputs : \E a \in BOOLEAN :
       pushSigned(m, a) /\ checkMessage(m) # ""

\* C5: a step in which push or pushSigned raises leaves the pool as it
\* was and starts no mining, and the pool lock is never lost: it is free
\* exactly when no invocation holds it
C5_RejectedLeavesPool ==
  /\ [][SubmissionFails => /\ messagePool' = messagePool
                           /\ mineT' = mineT
                           /\ miningLock' = miningLock]_vars
  /\ [](messagePoolLock.free + PoolHolders = 1)

\* a push was refused for lack of funds while messages were pending, and
\* the pool lock is free again
C5_Witness ==
  /\ lastError = "NotEnoughFunds"
  /\ Len(messagePool) > 0
  /\ messagePoolLock.free = 1

\* gasFeeCap x gasLimit + value of a message
Cost(m) == m.gasFeeCap * m.gasLimit + m.value

\* what the sender of m needs: the cost of m and of each of its messages
\* pending in the pool
Needed(m) ==
  Cost(m) + SumSeq([i \in 1..Len(From(messagePool, m.from)) |->
                      Cost(From(messagePool, m.from)[i])])

\* C6: a push that has passed the checks and holds the pool lock is
\* refused with NotEnoughFunds exactly when the sender's balance is below
\* the cost of the message plus the cost of the sender's pending messages;
\* otherwise it goes on and, its message check passing, is added to the pool
C6_FundsAdmission ==
  /\ [][\A p \in PushIds : pushAssignNonce(p) =>
          /\ (balance[pushT[p].msg.from] < Needed(pushT[p].msg))
               <=> (pushT'[p].pc = "idle" /\ lastError' = "NotEnoughFunds")
          /\ (balance[pushT[p].msg.from] >= Needed(pushT[p].msg))
               <=> pushT'[p].pc = "signing"]_vars
  /\ [][\A p \in PushIds :
          (pushAdd(p) /\ checkMessage(pushT[p].msg) = "") =>
            messagePool' = Append(messagePool, pushT[p].msg)]_vars

\* a push was refused although the balance covered the message itself:
\* the pending messages of the sender made the difference
C6_Witness ==
  /\ lastError = "NotEnoughFunds"
  /\ Len(From(messagePool, AddrA)) > 0
  /\ balance[AddrA] >= 3

\* C7: the tipset events carry the heights 1, 2, 3, ... and every tipset
\* being mined is one higher than the latest tipset before it
C7_IncreasingHeights ==
  /\ \A i \in 1..Len(events) : events[i] = i
  /\ \A t \in MineIds :
       /\ mineT[t].pc \in {"fee", "value", "nonce", "putBlockMessages",
                            "putTipset"}
            => mineT[t].height = latest + 1
       /\ mineT[t].pc \in {"putLatest", "advance"}
            => mineT[t].height = latest

\* two tipsets were mined, and a third invocation is mining the next one
C7_Witness ==
  /\ Len(events) >= 2
  /\ \E t \in MineIds : mineT[t].pc = "putTipset" /\ mineT[t].height = 3

\* C8: when a tipset event is emitted, the tipset of that height has been
\* put and the latest-tipset key holds that height
C8_EventAfterCommit ==
  [][events' # events =>
       /\ Len(events') = Len(events) + 1
       /\ events'[Len(events')] \in tipsets
       /\ dbLatest = events'[Len(events')]]_vars

\* a tipset event was emitted for the persisted tip
C8_Witness ==
  /\ Len(events) >= 1
  /\ dbLatest = events[Len(events)]
  /\ dbLatest \in tipsets

\* C9: each tipset mined while a deal is in process advances the deal by
\* one state, so a deal has moved as many states as tipsets were mined
\* since it was registered, until it is Active
C9_DealProgression ==
  \A i \in 1..Len(deals) : deals[i].state = Min(deals[i].rounds, Active)

\* C10: the dealIds handed out by startDeal, stops and re-initialisations
\* included, are strictly increasing
C10_DealIdMonotonic ==
  \A i, j \in 1..Len(allDealIds) : i < j => allDealIds[i] < allDealIds[j]

\* the whole batch of every mineTipset invocation that has drained the
\* pool and has not emitted its tipset event yet
RECURSIVE BatchesInFlight(_)
BatchesInFlight(ts) ==
  IF ts = {} THEN <<>>
  ELSE LET t == CHOOSE u \in ts : \A v \in ts : u <= v
       IN (IF mineT[t].pc \in {"fee", "value", "nonce", "putBlockMessages",
                               "putTipset", "putLatest", "advance"}
           THEN mineT[t].batch
           ELSE <<>>) \o BatchesInFlight(ts \ {t})

\* the accepted messages whose tipset event has not been emitted
Unsealed == BatchesInFlight(MineIds) \o messagePool

\* C11: when blockTime = 0, a push is not processed (given its nonce and
\* checked for funds under the pool lock) while a message accepted before
\* it still waits for its tipset event
C11_InstamineLatency ==
  blockTime = 0 =>
    \A p \in PushIds : pushT[p].pc = "signing" => Unsealed = <<>>

\* the height of the last tipset event, the genesis height when there
\* was none
LastEventHeight == IF events = <<>> THEN 0 ELSE events[Len(events)]

\* C12: a re-initialisation on the store of a stopped engine sets the
\* latest tipset to the height of the last tipset event, and a mineTipset
\* that runs after it produces that height plus one
C12_RestartRecovery ==
  /\ [][(initLoad /\ restarts > 0) => latest' = LastEventHeight]_vars
  /\ [](restarts > 0 =>
          \A t \in MineIds :
            mineT[t].pc \in {"putBlockMessages", "putTipset"}
              => mineT[t].height = LastEventHeight + 1)

\* a tipset was mined, the engine was stopped and re-initialised, and a
\* mineTipset of the new engine is about to commit the next height
C12_Witness ==
  /\ restarts > 0
  /\ Len(events) >= 1
  /\ latest = LastEventHeight
  /\ \E t \in MineIds :
       mineT[t].pc = "putTipset" /\ mineT[t].height = LastEventHeight + 1

\* a step of mineTipset in which a transfer of the message in hand is
\* refused for lack of funds: the base fee, the miner fee, or the principal
FeeFails(t) ==
  /\ mineFees(t)
  /\ LET m == mineT[t].batch[mineT[t].idx]
     IN balance[m.from] <
          (IF getBaseFee # 0 THEN 2 ELSE 1) * getMinerFee(m)
ValueFails(t) ==
  /\ mineValue(t)
  /\ balance[mineT[t].batch[mineT[t].idx].from]
       < mineT[t].batch[mineT[t].idx].value

\* C13: a refused transfer makes mineTipset skip the message: no nonce is
\* incremented, the message is not among the successful ones, and the
\* invocation goes on to the next message of the batch or to the commit;
\* the commit puts, for a batch that was not empty, the record of the
\* successful messages only, and the tipset; and an invocation that has
\* drained the pool ends only by emitting its tipset event
C13_FailuresAbsorbed ==
  /\ [][\A t \in MineIds : (FeeFails(t) \/ ValueFails(t)) =>
          /\ nonce' = nonce
          /\ applied' = applied
          /\ mineT'[t].succ = mineT[t].succ
          /\ mineT'[t].batch = mineT[t].batch
          /\ mineT'[t].idx = mineT[t].idx + 1
          /\ mineT'[t].pc = IF mineT[t].idx < Len(mineT[t].batch)
                            THEN "fee" ELSE "putBlockMessages"
          /\ miningLock' = miningLock]_vars
  /\ [][\A t \in MineIds :
          /\ minePutBlockMessages(t) =>
               {r \in blockMessages' : r.height = mineT[t].height}
                 = {[height |-> mineT[t].height, messages |-> mineT[t].succ]}
          /\ minePutTipset(t) => mineT[t].height \in tipsets']_vars
  /\ [][\A t \in MineIds :
          (/\ mineT[t].pc \in {"fee", "value", "nonce", "putBlockMessages",
                                "putTipset", "putLatest", "advance"}
           /\ mineT'[t].pc = "idle")
          => events' = Append(events, mineT[t].height)]_vars

\* a batch of two messages went through: the first was applied, the second
\* was skipped, and the tipset is committed
C13_Witness ==
  \E t \in MineIds :
    /\ mineT[t].pc = "advance"
    /\ Len(mineT[t].batch) = 2
    /\ mineT[t].succ = <<mineT[t].batch[1]>>
    /\ mineT[t].height \in tipsets
    /\ [height |-> mineT[t].height, messages |-> mineT[t].succ]
         \in blockMessages

\* invocation t of mineTipset is inside its mining-lock section
InMiningSection(t) ==
  mineT[t].pc \in {"wantPool", "fee", "value", "nonce", "putBlockMessages",
                   "putTipset", "putLatest", "advance"}

\* C14: stop() clears the timer and closes the store only when no
\* mineTipset is inside its mining-lock section; once a stop() holds both
\* locks no tipset is mined, no event emitted and the pool does not
\* change; every push, pushSigned and mineTipset is then idle or waits
\* for a lock it has not been given; and the stop() keeps both locks
C14_StopIrrevocable ==
  /\ [][(\E s \in StopIds : stopClearTimer(s) \/ stopIpfs(s) \/ stopClose(s))
          => \A t \in MineIds : ~InMiningSection(t)]_vars
  /\ [][(StopHoldsBoth /\ StopHoldsBoth') =>
          /\ UNCHANGED <<events, messagePool, blockMessages>>
          /\ tipsets' \ {0} = tipsets \ {0}]_vars
  /\ [][(StopHoldsBoth /\ restarts' = restarts) => StopHoldsBoth']_vars
  /\ [](StopHoldsBoth =>
          /\ \A p \in PushIds :
               \/ pushT[p].pc = "idle"
               \/ /\ pushT[p].pc = "wantPool"
                  /\ ~Granted(messagePoolLock, <<"push", p>>)
          /\ \A t \in MineIds :
               \/ mineT[t].pc \in {"idle", "called"}
               \/ /\ mineT[t].pc = "wantMining"
                  /\ ~Granted(miningLock, <<"mine", t>>))

\* the invocations of mineTipset that are applying a batch
ApplyingSet == {t \in MineIds : mineT[t].pc \in {"fee", "value", "nonce"}}

\* the accepted messages that wait to be applied, oldest first: what is
\* left of the batch in hand, then the pool
Pending ==
  IF ApplyingSet = {} THEN messagePool
  ELSE LET t == CHOOSE u \in ApplyingSet : TRUE
       IN SubSeq(mineT[t].batch, mineT[t].idx, Len(mineT[t].batch))
            \o messagePool

\* C15: the accepted messages form a queue: a step adds a message at the
\* tail, or takes the message at the head, and a message is applied only
\* when it is the one at the head; so messages are applied in the order in
\* which they were accepted, whoever sent them and whichever tipsets they
\* end up in (a new engine starts with an empty pool); one batch at a
\* time is being applied
C15_SubmissionOrder ==
  /\ [](Cardinality(ApplyingSet) <= 1)
  /\ [][LET before == Pending
            after == Pending'
        IN \/ /\ after = before
              /\ applied' = applied
           \/ /\ Len(after) = Len(before) + 1
              /\ after = Append(before, after[Len(after)])
              /\ applied' = applied
           \/ /\ before # <<>>
              /\ after = Tail(before)
              /\ \/ applied' = applied
                 \/ applied' = Append(applied, Head(before))
           \/ /\ restarts' # restarts
              /\ applied' = applied]_vars

\* two messages of different senders, accepted one after the other, were
\* applied in that order in one tipset
C15_Witness ==
  /\ Len(applied) = 2
  /\ applied[1].from # applied[2].from
  /\ \E r \in blockMessages : r.messages = applied

\* how many invocations hold the mining lock
MiningHolders ==
  Cardinality({t \in MineIds :
                 \/ InMiningSection(t)
                 \/ /\ mineT[t].pc = "wantMining"
                    /\ Granted(miningLock, <<"mine", t>>)})
  + Cardinality({s \in StopIds : StopHoldsMining(s)})

\* the invocations queued on a lock
Waiters(lock) == {lock.waiting[i] : i \in 1..Len(lock.waiting)}

\* C16: whoever waits for the mining lock neither holds nor waits for the
\* pool lock; a mineTipset or a stop() that holds or waits for the pool
\* lock holds the mining lock, which it took first; a push holds the pool
\* lock only; and the mining lock is free exactly when none of them holds it
C16_LockOrdering ==
  /\ miningLock.free + MiningHolders = 1
  /\ \A w \in Waiters(miningLock) :
       /\ w[1] \in {"mine", "stop"}
       /\ w \notin Waiters(messagePoolLock)
       /\ w[1] = "mine" => mineT[w[2]].pc = "wantMining"
       /\ w[1] = "stop" => stopT[w[2]] = "wantMining"
  /\ \A w \in Waiters(messagePoolLock) :
       /\ w[1] = "mine" =>
            /\ mineT[w[2]].pc = "wantPool"
            /\ Granted(miningLock, w)
       /\ w[1] = "stop" =>
            /\ stopT[w[2]] = "wantPool"
            /\ Granted(miningLock, w)
       /\ w[1] = "push" => pushT[w[2]].pc = "wantPool"

\* a mineTipset holds the mining lock and waits for the pool lock, which a
\* push holds, while another invocation waits for the mining lock
C16_Witness ==
  /\ \E t \in MineIds : <<"mine", t>> \in Waiters(messagePoolLock)
  /\ \E p \in PushIds : pushT[p].pc = "signing"
  /\ Waiters(miningLock) # {}

\* C17: whenever mineTipset is called from a submission, the submitting
\* operation does not hold the pool lock at the call
C17_ReleasedBeforeMiner ==
  \A t \in MineIds : ~mineT[t].poolHeld

\* the invocations of mineTipset that hold the mining lock
MinersInSection ==
  {t \in MineIds :
     \/ InMiningSection(t)
     \/ /\ mineT[t].pc = "wantMining"
        /\ Granted(miningLock, <<"mine", t>>)}

\* C18: at most one mineTipset invocation is between its acquire and its
\* release of the mining lock, and none while stop() holds the lock, also
\* after invocations have failed in their commit and released the lock in
\* the catch
C18_MiningExclusive ==
  /\ Cardinality(MinersInSection) <= 1
  /\ (\E s \in StopIds : StopHoldsMining(s)) => MinersInSection = {}
  /\ miningLock.free = 0 \/ MinersInSection = {}

\* an invocation failed after it had put its tipset and gave the lock
\* back, and a later invocation is in its section, about to commit
C18_Witness ==
  /\ latest > dbLatest
  /\ ready
  /\ \E t \in MineIds :
       /\ mineT[t].pc = "putTipset"
       /\ mineT[t].height = latest + 1
       /\ MinersInSection = {t}

\* C19: the height stored under the latest-tipset key, once there is one,
\* is the height of a tipset that has been put, in every state: during a
\* mineTipset and after one has failed between two of its writes
C19_TipDurability ==
  dbLatest >= 0 => dbLatest \in tipsets

\* a mineTipset failed between putTipset and the write of the key: the
\* key still holds the height before, whose tipset is in the store
C19_Witness ==
  /\ latest = dbLatest + 1
  /\ latest \in tipsets
  /\ dbLatest \in tipsets
  /\ \A t \in MineIds : ~InMiningSection(t)

\* C20: every tipset that was mined (every height but the genesis one)
\* has one record of block messages, whatever the batch was, the empty
\* one included
C20_BlockMessageAttribution ==
  \A h \in tipsets \ {0} :
    Cardinality({r \in blockMessages : r.height = h}) = 1

\* invocation t of mineTipset ends in its commit without having put and
\* announced its tipset: one of the writes has thrown
CommitThrows(t) == mineT[t].pc \in WritePcs /\ mineT'[t].pc = "idle"

\* C21: when a write of the commit of a mineTipset throws, the invocation
\* ends there and the startDeal that awaits it ends with it (the error is
\* re-raised); the mining lock is released once: it goes to the first
\* waiter or becomes free, and the accounting of the lock stays exact, so a
\* later mineTipset gets it; nothing is rolled back: balances, nonces and
\* the applied messages stay as they are and the drained messages do not
\* come back into the pool; no tipset event is emitted
C21_MiningFailure ==
  /\ [][\A t \in MineIds : CommitThrows(t) =>
          /\ balance' = balance
          /\ nonce' = nonce
          /\ applied' = applied
          /\ messagePool' = messagePool
          /\ events' = events
          /\ miningLock' = Release(miningLock)
          /\ mineT[t].owner # 0 => dealT'[mineT[t].owner].pc = "idle"
          /\ \A u \in MineIds \ {t} : mineT'[u] = mineT[u]]_vars
  /\ [](miningLock.free + MiningHolders = 1)

\* a mineTipset applied a message and failed in its commit: the nonce of
\* the sender is incremented, the pool is empty, no event was emitted, and
\* a later mineTipset has taken the mining lock and is about to commit
C21_Witness ==
  /\ events = <<>>
  /\ Len(applied) >= 1
  /\ nonce[applied[1].from] >= 1
  /\ messagePool = <<>>
  /\ \E t \in MineIds :
       /\ mineT[t].pc = "putTipset"
       /\ mineT[t].batch = <<>>
       /\ MinersInSection = {t}

\* C22: when blockTime = 0 and stop() is not called, every startDeal that
\* has registered its deal and mines gets to its end (it pays and returns):
\* whatever is going on, there comes a state in which no startDeal is in
\* progress; and a startDeal leaves its mining loop only with its deal
\* Active, also
\* when the tipsets of other startDeal calls and of pushes have advanced
\* the deal
C22_DealTerminates ==
  /\ []<>(blockTime = 0 => \A d \in DealIds : dealT[d].pc = "idle")
  /\ [][\A d \in DealIds :
          (dealT[d].pc \in {"mining", "mined"} /\ dealT'[d].pc = "pay")
            => deals[dealT[d].deal].state = Active]_vars

\* two startDeal calls have left their mining loops, both deals Active,
\* after fewer tipsets than the two would have mined alone: each was
\* advanced by tipsets of the other
C22_Witness ==
  /\ blockTime = 0
  /\ Len(deals) = 2
  /\ \A i \in 1..2 : deals[i].state = Active
  /\ Len(events) < 2 * DealSteps
  /\ \E d, e \in DealIds : d # e /\ dealT[d].pc = "pay" /\ dealT[e].pc = "pay"

\* C23: within one run of the engine the i-th element of deals has dealId
\* i, whatever startDeal calls are in progress; a step that registers a
\* deal appends one deal to deals and the same deal to inProcessDeals, and
\* no other step makes deals longer or shorter (a new engine starts with
\* no deals)
C23_DealIdIsIndex ==
  /\ [](\A i \in 1..Len(deals) : deals[i].dealId = i)
  /\ [][Len(deals') # Len(deals) =>
          \/ /\ Len(deals') = Len(deals) + 1
             /\ SubSeq(deals', 1, Len(deals)) = deals
             /\ inProcessDeals' = Append(inProcessDeals, Len(deals'))
          \/ /\ restarts' # restarts
             /\ deals' = <<>>]_vars

\* a second startDeal has registered its deal while the first one was
\* still mining: both are in progress, and the deals are numbered 1, 2
C23_Witness ==
  /\ Len(deals) = 2
  /\ deals[1].dealId = 1
  /\ deals[2].dealId = 2
  /\ deals[1].state # Active
  /\ \E d, e \in DealIds :
       /\ d # e
       /\ dealT[d].pc = "mining" /\ dealT[d].deal = 1
       /\ dealT[e].pc = "mining" /\ dealT[e].deal = 2

\* no push, pushSigned or mineTipset is in progress
Quiescent ==
  /\ \A p \in PushIds : pushT[p].pc = "idle"
  /\ \A t \in MineIds : mineT[t].pc = "idle"

\* C24: on an engine that is never stopped and whose continuations are run
\* when they are ready, every push, pushSigned and mineTipset (called from
\* outside, by the timer, by a submission or by startDeal) comes to its
\* end, returning or raising: whatever is going on, there comes a state
\* in which none is in progress; and in every state in which none is in
\* progress the pool lock and the mining lock are free, with nobody queued
C24_DeadlockFree ==
  /\ []<>Quiescent
  /\ [](Quiescent => /\ messagePoolLock = NewSema
                     /\ miningLock = NewSema)

\* all invocations have ended and both locks are free, after a message
\* was applied, a submission was refused for lack of funds and a
\* mineTipset raised from its commit
C24_Witness ==
  /\ Quiescent
  /\ messagePoolLock = NewSema
  /\ miningLock = NewSema
  /\ Len(applied) >= 1
  /\ lastError = "NotEnoughFunds"
  /\ latest > Len(events)

TypeOK ==
  /\ messagePoolLock.free \in 0..1
  /\ miningLock.free \in 0..1
  /\ \A a \in Addrs : balance[a] >= 0

====
